---- MODULE Spec2Model ----
(***************************************************************************)
(* Model of src/src/bot.py: the IRC video bot.  Two threads share one     *)
(* queue.Queue: the reactor thread runs on_pubmsg / on_privmsg, the        *)
(* daemon worker thread runs process_videos, which calls                   *)
(* download_and_encode for one job at a time.  External tools (yt-dlp,     *)
(* ffmpeg), the wall clock, the file system and the IRC connection are     *)
(* inputs: every outcome they can produce is a nondeterministic choice.    *)
(***************************************************************************)
EXTENDS Integers, Sequences, FiniteSets, TLC

(* ------------------------------ bounds -------------------------------- *)

\* Jobs ever enqueued in one behaviour.
MaxJobs == 2
\* The wall clock runs from 0 to MaxClock, in ticks.
MaxClock == 2
\* Clock ticks per minute: strftime("%m-%d-%y_%H:%M") drops what is below.
TicksPerMinute == 2
\* Links in one chat message.
MaxMsgLen == 2

(* ---------------------------- input sets ------------------------------ *)

\* Who writes in the channel, and who writes to the bot in private.
ChannelNicks == {"alice"}
PrivateNicks == {"bob"}

\* Words of a chat message: a youtube watch link, a vimeo link.
Tokens == {"https://youtube.com/watch?v=a", "https://vimeo.com/1"}

\* The [:50] of the title sanitisation.
TitleLimit == 50

\* Titles the title probe can print (sequences of characters): one with
\* characters the sanitisation replaces, one longer than TitleLimit.
MyVideo == <<"M", "y", " ", "V", "i", "d", "e", "o", "!", "!">>
LongTitle == [i \in 1..(TitleLimit + 1) |-> "a"]
Titles == {MyVideo, LongTitle}

\* Extensions yt-dlp can give input_video.%(ext)s.
Exts == {"mp4", "webm"}

\* The channel the bot was constructed with.
channel == "#test"

\* Python's None.
None == <<>>

JobIds == 1..MaxJobs

RECURSIVE SeqsUpTo(_, _)
SeqsUpTo(S, n) ==
    IF n = 0 THEN {<<>>}
    ELSE LET shorter == SeqsUpTo(S, n - 1)
         IN  shorter \cup {Append(s, x) : s \in {t \in shorter : Len(t) = n - 1}, x \in S}

\* The chat messages: up to MaxMsgLen links in any order, or text without a link.
Messages == SeqsUpTo(Tokens, MaxMsgLen) \cup {<<"hello">>}

(* ------------------------------ state --------------------------------- *)

VARIABLES
    processing_queue,  \* self.processing_queue: the items not yet taken by get()
    unfinished_tasks,  \* queue.Queue's count of put() minus task_done()
    put_count,         \* history: the number of put() calls so far
    requested,         \* history: job id -> what was put for it, until its task_done
    privmsgs,          \* history: the connection.privmsg calls for the jobs not yet done
    clock,             \* the wall clock, in ticks
    temp,              \* /app/temp: the extensions of the input_video.* files in it
    output,            \* /app/output: file name -> the title and timestamp of its last writer
    pc,                \* the worker thread's position
    running,           \* external processes started and not yet returned
    job,               \* the item get() returned: [id, url, requester]
    timestamp,         \* download_and_encode's local
    title,             \* download_and_encode's local: the first line the title probe printed
    safe_title,        \* download_and_encode's local
    input_file,        \* download_and_encode's local: input_files[0], <<"input_video", ext>>
    output_path,       \* download_and_encode's local
    success,           \* download_and_encode's local
    ret,               \* what download_and_encode returned: [success, output_file]
    calls,             \* history: the external invocations of the job in download_and_encode
    downloaded,        \* history: the files of temp that job's download wrote
    raised,            \* history: the steps of that job that raised
    nvenc_failed,      \* history: an NVENC encode of some job did not exit zero
    state              \* history: job id -> state of the job in the pipeline

vars == <<processing_queue, unfinished_tasks, put_count, requested, privmsgs, clock,
          temp, output, pc, running, job, timestamp, title, safe_title,
          input_file, output_path, success, ret, calls, downloaded, raised,
          nvenc_failed, state>>

ingestVars == <<processing_queue, unfinished_tasks, put_count, requested>>
fsVars     == <<temp, output>>
localVars  == <<timestamp, title, safe_title, input_file, output_path, success>>

(* --------------------------- pure functions --------------------------- *)

\* self.url_patterns, the two patterns whose links Tokens holds.
url_patterns == <<"youtube.com/watch", "vimeo.com">>

\* re.findall(pattern, message) finds the token.
Matches(p, tok) ==
    \/ p = 1 /\ tok = "https://youtube.com/watch?v=a"
    \/ p = 2 /\ tok = "https://vimeo.com/1"

\* re.findall(pattern, message): the matches in message order.
findall(p, message) == SelectSeq(message, LAMBDA tok : Matches(p, tok))

RECURSIVE ExtendFrom(_, _)
ExtendFrom(p, message) ==
    IF p > Len(url_patterns) THEN <<>>
    ELSE findall(p, message) \o ExtendFrom(p + 1, message)

RECURSIVE Unique(_)
Unique(s) ==
    IF s = <<>> THEN <<>>
    ELSE LET front == Unique(SubSeq(s, 1, Len(s) - 1))
         IN  IF \E i \in DOMAIN front : front[i] = s[Len(s)]
             THEN front
             ELSE Append(front, s[Len(s)])

\* extract_video_urls: pattern by pattern, the matches of each appended.
extract_unique_urls(message) == Unique(ExtendFrom(1, message))
extract_video_urls(message) == ExtendFrom(1, message)

\* The characters of Titles that \w matches.
WordChars == {"M", "y", "V", "i", "d", "e", "o", "a", "_"}

\* re.sub(r'[^\w\-_\.]', '_', title)[:50]
SanitizeNoLimit(text) ==
    [i \in DOMAIN text |->
       IF text[i] \in WordChars \cup {"-", "_", "."} THEN text[i] ELSE "_"]
Sanitize(text) ==
    LET sub == [i \in DOMAIN text |->
                  IF text[i] \in WordChars \cup {"-", "_", "."} THEN text[i] ELSE "_"]
    IN  SubSeq(sub, 1, IF Len(sub) < TitleLimit THEN Len(sub) ELSE TitleLimit)

Digits == <<"0", "1", "2", "3", "4", "5", "6", "7", "8", "9">>

\* now.strftime("%m-%d-%y_%H:%M"): the clock counts ticks from 14:30:00 on
\* 03-05-24; the text names the minute the tick lies in and drops the rest.
strftime(now) ==
    LET minute == 30 + (now \div TicksPerMinute)
    IN  <<"03-05-24_14:", Digits[(minute \div 10) + 1], Digits[(minute % 10) + 1]>>

\* f"{safe_title}-{timestamp}-x220.mp4"
OutputFilenameNoStamp(name, stamp) == name \o <<"-", "-x220.mp4">>
OutputFilenameAtEncode(name, stamp) == name \o <<"-">> \o strftime(clock) \o <<"-x220.mp4">>
OutputFilename(name, stamp) == name \o <<"-">> \o stamp \o <<"-x220.mp4">>

\* Path("/app/output") / output_filename, and str() of it.
OutputPath(output_filename) == <<"/app/output", output_filename>>

\* os.path.basename(output_file)
basename(path) == path[Len(path)]

\* f"http://10.0.0.2:8084/{filename}"
file_url_of_path(path) == <<"http://10.0.0.2:8084", path>>
file_url(path) == <<"http://10.0.0.2:8084", basename(path)>>

(* ------------------------------- Init --------------------------------- *)

\* VideoBot.__init__: an empty queue, the worker thread started and blocked
\* in get(); main() has made /app/output, nothing has run yet.
Init ==
    /\ processing_queue = <<>>
    /\ unfinished_tasks = 0
    /\ put_count = 0
    /\ requested = [j \in JobIds |-> None]
    /\ privmsgs = <<>>
    /\ clock = 0
    /\ temp = {}
    /\ output = <<>>
    /\ pc = "get"
    /\ running = {}
    /\ job = None
    /\ timestamp = None
    /\ title = None
    /\ safe_title = None
    /\ input_file = None
    /\ output_path = None
    /\ success = FALSE
    /\ ret = None
    /\ calls = <<>>
    /\ downloaded = {}
    /\ raised = {}
    /\ nvenc_failed = FALSE
    /\ state = [j \in JobIds |-> "Absent"]

(* ------------------------- the reactor thread ------------------------- *)

\* urls = self.extract_video_urls(message), for each of the chat messages.
Extracted == [message \in Messages |-> extract_video_urls(message)]

\* queue.Queue() has maxsize 0: put() never finds the queue full.
fullAtOne(q) == Len(q) >= 1
full(q) == FALSE

\* The loop body of on_pubmsg / on_privmsg for the urls of one message:
\* c.privmsg(target, "Processing video: url"), then processing_queue.put((url, nick)).
\* The handler runs on the reactor thread while it dispatches a line just
\* read from the connection: the acknowledgement send is taken to return.
Handle(message, nick, target, via) ==
    LET urls == Extracted[message]
        n    == Len(urls)
        base == put_count
        new  == [i \in 1..n |-> [id |-> base + i, url |-> urls[i], requester |-> nick]]
        acks == [i \in 1..n |-> [target |-> target, kind |-> "processing",
                                 url |-> urls[i], file |-> None, requester |-> None,
                                 job |-> base + i, delivered |-> TRUE]]
    IN  /\ base + n <= MaxJobs
        /\ \A i \in 1..n : ~full(processing_queue \o SubSeq(new, 1, i - 1))
        /\ privmsgs' = privmsgs \o acks
        /\ processing_queue' = processing_queue \o new
        /\ put_count' = base + n
        /\ requested' = [j \in JobIds |-> IF j \in (base + 1)..(base + n)
                                           THEN [url |-> urls[j - base], requester |-> nick, via |-> via]
                                           ELSE requested[j]]
        /\ unfinished_tasks' = unfinished_tasks + n
        /\ state' = [j \in JobIds |-> IF j \in (base + 1)..(base + n) THEN "Queued" ELSE state[j]]
        /\ UNCHANGED <<clock, fsVars, pc, running, job, localVars, ret, calls, downloaded,
                       raised, nvenc_failed>>

on_pubmsg == \E message \in Messages, nick \in ChannelNicks : Handle(message, nick, channel, "pubmsg")

on_privmsg == \E message \in Messages, nick \in PrivateNicks : Handle(message, nick, nick, "privmsg")

\* The wall clock datetime.now() reads.
Tick ==
    /\ clock < MaxClock
    /\ clock' = clock + 1
    /\ UNCHANGED <<ingestVars, privmsgs, fsVars, pc, running, job, localVars, ret,
                   calls, downloaded, raised, state>>
    /\ UNCHANGED nvenc_failed

(* ------------------------- the worker thread -------------------------- *)

\* queue.Queue.get on a deque: popleft.
getLast(q) == [item |-> q[Len(q)], rest |-> SubSeq(q, 1, Len(q) - 1)]
get(q) == [item |-> Head(q), rest |-> Tail(q)]

\* "return s, f" of download_and_encode: back in process_videos at line 99.
Return(s, f) ==
    /\ ret' = [success |-> s, output_file |-> f]
    /\ pc' = "notify"
    /\ state' = [state EXCEPT ![job.id] = IF s THEN "Succeeded" ELSE "Failed"]
    /\ timestamp' = None
    /\ title' = None
    /\ safe_title' = None
    /\ input_file' = None
    /\ output_path' = None
    /\ success' = FALSE

\* "except Exception as e: ... return False, None" of download_and_encode.
ExceptPropagates(step) ==
    /\ raised' = raised \cup {step}
    /\ pc' = "task_done"
    /\ UNCHANGED <<ret, state, localVars>>
ExceptHandler(step) ==
    /\ raised' = raised \cup {step}
    /\ Return(FALSE, None)

\* The returncode tests of download_and_encode.
NoInfoCheck(rc) == FALSE
NoCpuCheck(rc) == FALSE
NoDownloadCheck(rc) == FALSE
InfoFailed(rc) == rc # "exit0"
DownloadFailed(rc) == rc # "exit0"
NvencSucceeded(rc) == rc = "exit0"
CpuFailed(rc) == rc # "exit0"

\* Lines 234-238: "except: pass" around input_file.unlink(); line 240 is
\* reached whether or not the unlink raised.
UnlinkEscapes(unlink) == unlink = "ok"
UnlinkCaught(unlink) == TRUE

\* "if not success:" before the CPU encode.
FallbackAlways(s) == TRUE
FallbackNeeded(s) == ~s

\* check_nvenc_available: "h264_nvenc" in stdout, False when the probe raised.
nvenc_remembered(outcome) == outcome = "listed" /\ ~nvenc_failed
check_nvenc_available(outcome) == IF outcome = "raise" THEN FALSE ELSE outcome = "listed"

\* A second consumer of the queue: get() taken while a job is being processed.
GetWhileBusy ==
    /\ processing_queue # <<>>
    /\ job' = get(processing_queue).item
    /\ processing_queue' = get(processing_queue).rest
    /\ state' = [state EXCEPT ![job'.id] = "Fetching"]
    /\ pc' = "start"
    /\ calls' = <<>>
    /\ downloaded' = {}
    /\ raised' = {}
    /\ UNCHANGED <<unfinished_tasks, put_count, requested, privmsgs, clock, fsVars,
                   running, localVars, ret>>
    /\ UNCHANGED nvenc_failed

\* url, requester = self.processing_queue.get(); blocks while the queue is empty.
Get ==
    /\ pc = "get"
    /\ processing_queue # <<>>
    /\ job' = get(processing_queue).item
    /\ processing_queue' = get(processing_queue).rest
    /\ state' = [state EXCEPT ![job'.id] = "Fetching"]
    /\ pc' = "start"
    /\ calls' = <<>>
    /\ downloaded' = {}
    /\ raised' = {}
    /\ UNCHANGED <<unfinished_tasks, put_count, requested, privmsgs, clock, fsVars,
                   running, localVars, ret>>
    /\ UNCHANGED nvenc_failed

\* download_and_encode, lines 128-135: the timestamp, then temp_dir.mkdir.
Start ==
    /\ pc = "start"
    /\ \E mkdir \in {"ok", "raise"} :
         IF mkdir = "raise"
         THEN ExceptHandler("mkdir")
         ELSE /\ timestamp' = strftime(clock)
              /\ pc' = "info"
              /\ UNCHANGED <<title, safe_title, input_file, output_path, success, ret, raised, state>>
    /\ UNCHANGED <<ingestVars, privmsgs, clock, fsVars, running, job, calls, downloaded>>
    /\ UNCHANGED nvenc_failed

CallSites == {"info", "download", "probe", "nvenc", "cpu"}

\* subprocess.run starts the external process and waits for it.
Launch ==
    /\ pc \in CallSites
    /\ pc \notin running
    /\ running' = running \cup {pc}
    /\ UNCHANGED <<ingestVars, privmsgs, clock, fsVars, pc, job, localVars, ret,
                   calls, downloaded, raised, state>>
    /\ UNCHANGED nvenc_failed

\* Lines 144-153: the title probe returns.
InfoReturn ==
    /\ pc = "info"
    /\ "info" \in running
    /\ running' = running \ {"info"}
    /\ \E outcome \in {"exit0", "exit1", "raise"}, stdout \in Titles :
         /\ calls' = Append(calls, <<"info", outcome>>)
         /\ IF outcome = "raise"
            THEN ExceptHandler("info")
            ELSE IF InfoFailed(outcome)
            THEN /\ Return(FALSE, None)
                 /\ UNCHANGED raised
            ELSE /\ title' = stdout
                 /\ safe_title' = Sanitize(title')
                 /\ pc' = "download"
                 /\ UNCHANGED <<timestamp, input_file, output_path, success, ret, raised, state>>
    /\ UNCHANGED <<ingestVars, privmsgs, clock, fsVars, job, downloaded>>
    /\ UNCHANGED nvenc_failed

\* Lines 162-165: the download returns.  It may have written input_video.<ext>;
\* over a file of that name it either keeps the old file or replaces it.
DownloadReturn ==
    /\ pc = "download"
    /\ "download" \in running
    /\ running' = running \ {"download"}
    /\ \E outcome \in {"exit0", "exit1", "raise"}, wrote \in Exts \cup {"nothing"}, keep \in BOOLEAN :
         /\ calls' = Append(calls, <<"download", outcome>>)
         /\ outcome = "raise" => wrote = "nothing"
         /\ wrote \notin temp => ~keep
         /\ temp' = IF wrote = "nothing" THEN temp ELSE temp \cup {wrote}
         /\ downloaded' = IF wrote = "nothing" \/ keep THEN downloaded ELSE downloaded \cup {wrote}
         /\ IF outcome = "raise"
            THEN ExceptHandler("download")
            ELSE IF DownloadFailed(outcome)
            THEN /\ Return(FALSE, None)
                 /\ UNCHANGED raised
            ELSE /\ pc' = "glob"
                 /\ UNCHANGED <<localVars, ret, raised, state>>
    /\ UNCHANGED <<ingestVars, privmsgs, clock, output, job>>
    /\ UNCHANGED nvenc_failed

\* Lines 168-180: temp_dir.glob("input_video.*"), the first file of the list
\* (the directory's order), the output file name.
Glob ==
    /\ pc = "glob"
    /\ LET input_files == temp
       IN  \E lookup \in {"ok", "raise"} :
             IF lookup = "raise"
             THEN ExceptHandler("glob")
             ELSE IF input_files = {}
             THEN /\ Return(FALSE, None)
                  /\ UNCHANGED raised
             ELSE \E e \in input_files :
                  /\ input_file' = <<"input_video", e>>
                  /\ output_path' = OutputPath(OutputFilename(safe_title, timestamp))
                  /\ success' = FALSE
                  /\ pc' = "probe"
                  /\ state' = [state EXCEPT ![job.id] = "Encoding"]
                  /\ UNCHANGED <<timestamp, title, safe_title, ret, raised>>
    /\ UNCHANGED <<ingestVars, privmsgs, clock, fsVars, running, job, calls, downloaded>>
    /\ UNCHANGED nvenc_failed

\* Line 183 and check_nvenc_available: the encoder listing returns.
ProbeReturn ==
    /\ pc = "probe"
    /\ "probe" \in running
    /\ running' = running \ {"probe"}
    /\ \E outcome \in {"listed", "absent", "raise"} :
         /\ calls' = Append(calls, <<"probe", outcome>>)
         /\ raised' = IF outcome = "raise" THEN raised \cup {"probe"} ELSE raised
         /\ pc' = IF check_nvenc_available(outcome) THEN "nvenc"
                  ELSE IF FallbackNeeded(success) THEN "cpu" ELSE "cleanup"
    /\ UNCHANGED <<ingestVars, privmsgs, clock, fsVars, job, localVars, ret, downloaded, state>>
    /\ UNCHANGED nvenc_failed

\* ffmpeg -y output_path: a process that ran may have written the file.
Written(wrote) ==
    IF wrote
    THEN (output_path :> [title |-> safe_title, stamp |-> timestamp]) @@ output
    ELSE output

\* Lines 199-209: the NVENC encode returns.
NvencReturn ==
    /\ pc = "nvenc"
    /\ "nvenc" \in running
    /\ running' = running \ {"nvenc"}
    /\ \E outcome \in {"exit0", "exit1", "raise"}, wrote \in BOOLEAN :
         /\ calls' = Append(calls, <<"nvenc", outcome>>)
         /\ outcome = "raise" => ~wrote
         /\ outcome = "exit0" => wrote
         /\ output' = Written(wrote)
         /\ IF outcome = "raise"
            THEN ExceptHandler("nvenc")
            ELSE /\ success' = NvencSucceeded(outcome)
                 /\ pc' = IF FallbackNeeded(success') THEN "cpu" ELSE "cleanup"
                 /\ UNCHANGED <<timestamp, title, safe_title, input_file, output_path, ret, raised, state>>
    /\ UNCHANGED <<ingestVars, privmsgs, clock, temp, job, downloaded>>
    /\ nvenc_failed' = (nvenc_failed \/ calls'[Len(calls')][2] # "exit0")

\* Lines 222-227: the x264 encode returns.
CpuReturn ==
    /\ pc = "cpu"
    /\ "cpu" \in running
    /\ running' = running \ {"cpu"}
    /\ \E outcome \in {"exit0", "exit1", "raise"}, wrote \in BOOLEAN :
         /\ calls' = Append(calls, <<"cpu", outcome>>)
         /\ outcome = "raise" => ~wrote
         /\ outcome = "exit0" => wrote
         /\ output' = Written(wrote)
         /\ IF outcome = "raise"
            THEN ExceptHandler("cpu")
            ELSE IF CpuFailed(outcome)
            THEN /\ Return(FALSE, None)
                 /\ UNCHANGED raised
            ELSE /\ success' = TRUE
                 /\ pc' = "cleanup"
                 /\ UNCHANGED <<timestamp, title, safe_title, input_file, output_path, ret, raised, state>>
    /\ UNCHANGED <<ingestVars, privmsgs, clock, temp, job, downloaded>>
    /\ UNCHANGED nvenc_failed

\* Lines 229-240: "if not success" (never taken), input_file.unlink() inside
\* try/except/pass, return True, str(output_path).
Cleanup ==
    /\ pc = "cleanup"
    /\ IF ~success
       THEN /\ Return(FALSE, None)
            /\ UNCHANGED <<temp, raised>>
       ELSE \E unlink \in {"ok", "raise"} :
            /\ temp' = IF unlink = "ok" THEN temp \ {input_file[2]} ELSE temp
            /\ raised' = IF unlink = "raise" THEN raised \cup {"unlink"} ELSE raised
            /\ IF UnlinkCaught(unlink)
               THEN Return(TRUE, output_path)
               ELSE Return(FALSE, None)
    /\ UNCHANGED <<ingestVars, privmsgs, clock, output, running, job, calls, downloaded>>
    /\ UNCHANGED nvenc_failed

\* Lines 99-109: the messages process_videos sends for a result.
SilentFailure(r, j) ==
    IF r.success /\ r.output_file # None
    THEN <<[target |-> channel, kind |-> "ready", url |-> None, file |-> file_url(r.output_file),
            requester |-> j.requester, job |-> j.id]>>
    ELSE <<>>
NotifiesRequester(r, j) ==
    IF r.success /\ r.output_file # None
    THEN <<[target |-> j.requester, kind |-> "ready", url |-> None, file |-> file_url(r.output_file),
            requester |-> j.requester, job |-> j.id]>>
    ELSE <<[target |-> j.requester, kind |-> "failed", url |-> j.url, file |-> None,
            requester |-> j.requester, job |-> j.id]>>
Notifications(r, j) ==
    IF r.success /\ r.output_file # None
    THEN <<[target |-> channel, kind |-> "ready", url |-> None, file |-> file_url(r.output_file),
            requester |-> j.requester, job |-> j.id]>>
    ELSE <<[target |-> channel, kind |-> "failed", url |-> j.url, file |-> None,
            requester |-> j.requester, job |-> j.id]>>

\* Lines 111-114: an exception of the send is logged, finally runs, the loop goes on.
ThreadDies(delivered) == IF delivered THEN "task_done" ELSE "dead"
SkipsTaskDone(delivered) == IF delivered THEN "task_done" ELSE "get"
AfterNotify(delivered) == "task_done"

\* Lines 99-112: self.connection.privmsg(self.channel, message); the call
\* returns or raises (the connection is down).
Notify ==
    /\ pc = "notify"
    /\ \E delivered \in BOOLEAN :
         /\ privmsgs' = privmsgs \o
              [i \in 1..Len(Notifications(ret, job)) |->
                 [target |-> Notifications(ret, job)[i].target,
                  kind |-> Notifications(ret, job)[i].kind,
                  url |-> Notifications(ret, job)[i].url,
                  file |-> Notifications(ret, job)[i].file,
                  requester |-> Notifications(ret, job)[i].requester,
                  job |-> Notifications(ret, job)[i].job,
                  delivered |-> delivered]]
         /\ pc' = AfterNotify(delivered)
    /\ state' = [state EXCEPT ![job.id] = "Reported"]
    /\ calls' = <<>>
    /\ downloaded' = {}
    /\ raised' = {}
    /\ UNCHANGED <<ingestVars, clock, fsVars, running, job, localVars, ret>>
    /\ UNCHANGED nvenc_failed

\* Lines 113-114: finally: self.processing_queue.task_done(), then the next get().
TaskDone ==
    /\ pc = "task_done"
    /\ unfinished_tasks' = unfinished_tasks - 1
    /\ requested' = [requested EXCEPT ![job.id] = None]
    /\ privmsgs' = SelectSeq(privmsgs, LAMBDA m : m.job # job.id)
    /\ pc' = "get"
    /\ job' = None
    /\ ret' = None
    /\ calls' = <<>>
    /\ downloaded' = {}
    /\ raised' = {}
    /\ timestamp' = None
    /\ title' = None
    /\ safe_title' = None
    /\ input_file' = None
    /\ output_path' = None
    /\ success' = FALSE
    /\ UNCHANGED <<processing_queue, put_count, clock, fsVars, running, state>>
    /\ UNCHANGED nvenc_failed

Worker ==
    \/ Get
    \/ Start
    \/ Launch
    \/ InfoReturn
    \/ DownloadReturn
    \/ Glob
    \/ ProbeReturn
    \/ NvencReturn
    \/ CpuReturn
    \/ Cleanup
    \/ Notify
    \/ TaskDone

Next ==
    \/ on_pubmsg
    \/ on_privmsg
    \/ Tick
    \/ Worker

Spec == Init /\ [][Next]_vars

\* The worker thread is scheduled and every external process returns.
FairSpec == Spec /\ WF_vars(Worker)

(* ------------------------- reading the state -------------------------- *)

\* The terminal notifications (ready or failed) sent for job j.
Notifs(j) == SelectSeq(privmsgs, LAMBDA m : m.job = j /\ m.kind \in {"ready", "failed"})

\* The current job's invocations of tool t, and whether one returned outcome o.
CallsOf(t) == SelectSeq(calls, LAMBDA c : c[1] = t)
Called(t) == Len(CallsOf(t)) > 0
Returned(t, o) == \E i \in DOMAIN calls : calls[i] = <<t, o>>
Position(t) == CHOOSE i \in DOMAIN calls : calls[i][1] = t

\* download_and_encode has returned for the current job; its result is not yet sent.
Finished == pc = "notify"

\* The current job's notification was sent; task_done is next.
Sent == pc = "task_done"

\* Exactly one notification was sent for the current job, and of this kind.
NotifiedOnce(kind) ==
    /\ Len(Notifs(job.id)) = 1
    /\ Notifs(job.id)[1].kind = kind

Dequeued == {j \in JobIds : state[j] \in {"Fetching", "Encoding", "Succeeded", "Failed"}}

(* ------------------------------ claims -------------------------------- *)

\* C1: at most one job is in flight.  At most one job is dequeued and not
\* yet reported, at most one external process is running and it belongs to
\* the job in Fetching or Encoding, and the worker is back at get() only
\* when no dequeued job is short of Reported, whatever the queue holds.
C1_AtMostOneInFlight ==
    /\ Cardinality(Dequeued) <= 1
    /\ Cardinality(running) <= 1
    /\ running # {} => /\ job # None
                       /\ state[job.id] \in {"Fetching", "Encoding"}
                       /\ Dequeued = {job.id}
    /\ pc = "get" => Dequeued = {}

\* A process of the current job is running while another job waits in the queue.
C1_Witness ==
    /\ running # {}
    /\ Len(processing_queue) >= 1
    /\ state[job.id] = "Encoding"

\* C2: strict FIFO.  Job ids count the puts; the queue holds them in
\* increasing order, and a job that has left Queued finds every job put
\* before it already Reported.
C2_Fifo ==
    /\ \A i, k \in DOMAIN processing_queue :
         i < k => processing_queue[i].id < processing_queue[k].id
    /\ \A a, b \in JobIds :
         (a < b /\ state[b] \notin {"Absent", "Queued"}) => state[a] = "Reported"

\* The second job is being fetched after the first was reported.
C2_Witness ==
    /\ state[1] = "Reported"
    /\ state[2] = "Fetching"
    /\ job.id = 2

\* C3: under fairness of the worker (every external process returns), a
\* queued job reaches a terminal state, then Reported, and the worker comes
\* back to get() again and again.
C3_EveryJobReported ==
    /\ \A j \in JobIds : (state[j] = "Queued") ~> (state[j] \in {"Succeeded", "Failed"})
    /\ \A j \in JobIds : (state[j] = "Queued") ~> (state[j] = "Reported")
    /\ []<>(pc = "get")

\* Both jobs were reported and the worker waits in get().
C3_Witness ==
    /\ \A j \in JobIds : state[j] = "Reported"
    /\ pc = "get"
    /\ processing_queue = <<>>

\* C4: one privmsg call per dequeued job carries its result: none before
\* the job is Reported, exactly one once it is (ready or failed), and it
\* names the requester the job was put with.  A call counts whether or not
\* the connection delivered it.
C4_ExactlyOneNotification ==
    \A j \in JobIds :
      /\ state[j] \in {"Absent", "Queued", "Fetching", "Encoding", "Succeeded", "Failed"}
           => Len(Notifs(j)) = 0
      /\ (state[j] = "Reported" /\ requested[j] # None)
           => /\ Len(Notifs(j)) = 1
              /\ Notifs(j)[1].requester = requested[j].requester
              /\ Notifs(j)[1].target = channel

\* The second job, put by bob, has its failure notification; the first was alice's.
C4_Witness ==
    /\ pc = "task_done"
    /\ job.id = 2
    /\ requested[2].requester = "bob"
    /\ Len(Notifs(2)) = 1
    /\ Notifs(2)[1].kind = "failed"
    /\ Notifs(2)[1].requester = "bob"

\* The steps of Fetching and Encoding that can raise.
FetchEncodeSteps == {"mkdir", "info", "download", "glob", "probe", "nvenc", "cpu"}

\* C5 as stated: an exception at any step, the capability probe included,
\* makes the job Failed.
C5_AnyRaiseFails ==
    (Finished /\ raised \cap FetchEncodeSteps # {}) => ~ret.success

\* C5 amended: an exception of mkdir, the title probe, the download, the
\* file lookup, the NVENC encode or the x264 encode makes the job Failed
\* with one failure notification; an exception of the capability probe
\* counts as "NVENC not available" and the x264 encode decides the job;
\* the worker thread never ends.
C5_RaiseFailsExceptProbe ==
    /\ pc # "dead"
    /\ (raised \cap (FetchEncodeSteps \ {"probe"}) # {})
         => /\ Finished
            /\ state[job.id] = "Failed"
            /\ ~ret.success
    /\ ("probe" \in raised /\ pc \in {"cleanup", "notify"})
         => /\ Called("cpu")
            /\ ~Called("nvenc")
            /\ Finished => (ret.success <=> Returned("cpu", "exit0"))
    /\ (Sent /\ ~ret.success) => NotifiedOnce("failed")

\* The x264 encode raised and the job is Failed.
C5_Witness ==
    /\ Finished
    /\ "cpu" \in raised
    /\ ~ret.success
    /\ state[job.id] = "Failed"

\* C6: the encode fallback order of one job.  NVENC runs at most once and
\* only after the probe listed it; x264 runs at most once, only after the
\* probe did not list NVENC or NVENC exited non-zero, and then always;
\* never after a successful NVENC, never before NVENC, never beside it.
C6_FallbackOrder ==
    /\ Len(CallsOf("probe")) <= 1
    /\ Len(CallsOf("nvenc")) <= 1
    /\ Len(CallsOf("cpu")) <= 1
    /\ ~({"nvenc", "cpu"} \subseteq running)
    /\ (Called("nvenc") \/ "nvenc" \in running) => Returned("probe", "listed")
    /\ (Called("cpu") \/ "cpu" \in running)
         => /\ Called("probe")
            /\ ~Returned("probe", "listed") \/ Returned("nvenc", "exit1")
            /\ ~Returned("nvenc", "exit0")
    /\ (Called("cpu") /\ Called("nvenc")) => Position("nvenc") < Position("cpu")
    /\ (Called("probe") /\ pc \in {"cleanup", "notify"})
         => (Called("cpu") <=> (~Returned("probe", "listed") \/ Returned("nvenc", "exit1")))

\* NVENC was listed and exited non-zero, and x264 ran after it.
C6_Witness ==
    /\ pc = "cleanup"
    /\ Returned("probe", "listed")
    /\ Returned("nvenc", "exit1")
    /\ Returned("cpu", "exit0")

\* C7: the job is reported ready exactly when the fetch succeeded and the
\* last encode invocation exited zero; otherwise it is reported failed.
LastEncodeOk ==
    /\ Len(calls) >= 3
    /\ calls[1] = <<"info", "exit0">>
    /\ calls[2] = <<"download", "exit0">>
    /\ calls[Len(calls)][1] \in {"nvenc", "cpu"}
    /\ calls[Len(calls)][2] = "exit0"

C7_SuccessIffLastEncodeOk ==
    /\ Finished => /\ ret.success <=> LastEncodeOk
                   /\ ret.success => ret.output_file \in DOMAIN output
    /\ Sent => /\ NotifiedOnce(IF ret.success THEN "ready" ELSE "failed")
               /\ ret.success => Notifs(job.id)[1].file = file_url(ret.output_file)

\* NVENC failed, x264 succeeded, the job is Succeeded and not yet reported.
C7_Witness ==
    /\ Finished
    /\ Returned("nvenc", "exit1")
    /\ Returned("cpu", "exit0")
    /\ ret.success

\* C8: a failed fetch (title probe non-zero, download non-zero, or no
\* input_video.* found) ends the job Failed with one failure notification,
\* no encoder call was made, and no download after a failed title probe.
NoFileFound ==
    /\ Finished
    /\ calls = << <<"info", "exit0">>, <<"download", "exit0">> >>
    /\ raised = {}

FetchFailed == Returned("info", "exit1") \/ Returned("download", "exit1") \/ NoFileFound

C8_FetchFailureSkipsEncoder ==
    /\ FetchFailed
         => /\ Finished
            /\ ~ret.success
            /\ state[job.id] = "Failed"
            /\ ~Called("probe") /\ ~Called("nvenc") /\ ~Called("cpu")
            /\ running = {}
            /\ Returned("info", "exit1") => ~Called("download")
    /\ (Sent /\ ~ret.success)
         => /\ NotifiedOnce("failed")
            /\ Notifs(job.id)[1].url = requested[job.id].url

\* The download exited zero and left no input_video.* file.
C8_Witness ==
    /\ NoFileFound
    /\ temp = {}
    /\ state[job.id] = "Failed"

\* C9 as stated: the output file name of a job is never the name of a file
\* an earlier job wrote.
C9_NeverSameName ==
    pc = "probe" => output_path \notin DOMAIN output

\* C9 amended: the output file name of a job is the name of a file an
\* earlier job wrote exactly when that job had the same sanitised title and
\* the same minute timestamp.
C9_SameNameIffSameTitleAndMinute ==
    pc = "probe"
      => \A f \in DOMAIN output :
           (f = output_path) <=> (output[f].title = safe_title /\ output[f].stamp = timestamp)

\* An earlier job wrote a file for the same title in another minute.
C9_Witness ==
    /\ pc = "probe"
    /\ \E f \in DOMAIN output :
         /\ output[f].title = safe_title
         /\ output[f].stamp # timestamp
         /\ f # output_path

\* C10: a job in Encoding finds exactly one input_video.* file, the one
\* its own download wrote.
C10_InputIsOwnDownload ==
    (job # None /\ state[job.id] = "Encoding")
      => /\ Cardinality(temp) = 1
         /\ input_file[2] \in downloaded

\* The text of the timestamp 03-05-24_14:30.
Stamp1430 == <<"03-05-24_14:", "3", "0">>

\* The title "My Video!!" is being encoded by a job started at 03-05-24_14:30.
MyVideoAt1430 ==
    /\ pc = "probe"
    /\ title = MyVideo
    /\ timestamp = Stamp1430

\* C11 as stated: the output file name for the title "My Video!!" at
\* 03-05-24_14:30 is My_Video-03-05-24_14:30-x220.mp4.
C11_ExampleFilename ==
    MyVideoAt1430
      => basename(output_path) =
           <<"M", "y", "_", "V", "i", "d", "e", "o", "-", "03-05-24_14:", "3", "0", "-x220.mp4">>

\* C11 amended: that file name is My_Video__-03-05-24_14:30-x220.mp4.  Each
\* character other than a word character, hyphen, underscore or dot becomes
\* one underscore, the others are kept, the result is cut to 50 characters
\* only when the title is longer, and the name is the sanitised title, the
\* timestamp and x220 joined by hyphens, with .mp4, in /app/output.
C11_FilenameOfTitle ==
    /\ MyVideoAt1430
         => basename(output_path) =
              <<"M", "y", "_", "V", "i", "d", "e", "o", "_", "_", "-",
                "03-05-24_14:", "3", "0", "-x220.mp4">>
    /\ pc = "probe"
         => /\ Len(safe_title) = (IF Len(title) > 50 THEN 50 ELSE Len(title))
            /\ \A i \in 1..Len(safe_title) :
                 safe_title[i] = (IF title[i] \in {" ", "!"} THEN "_" ELSE title[i])
            /\ output_path = <<"/app/output",
                               safe_title \o <<"-">> \o timestamp \o <<"-x220.mp4">> >>

\* The job of the example is at the capability probe, its file name made.
C11_Witness ==
    /\ MyVideoAt1430
    /\ Len(basename(output_path)) = 15
    /\ state[job.id] = "Encoding"

\* C12: on a job whose encode succeeded the input file is unlinked before
\* download_and_encode returns; whether the unlink removed the file or
\* raised, the result is (True, output path), the job is Succeeded, and the
\* next step of the worker sends the ready notification with that file and
\* goes on to task_done.
C12_CleanupBestEffort ==
    /\ [][(pc = "cleanup" /\ success /\ pc' # pc)
            => /\ pc' = "notify"
               /\ ret' = [success |-> TRUE, output_file |-> output_path]
               /\ state'[job.id] = "Succeeded"
               /\ \/ temp' = temp \ {input_file[2]} /\ "unlink" \notin raised'
                  \/ temp' = temp /\ "unlink" \in raised']_vars
    /\ [][(pc = "notify" /\ "unlink" \in raised /\ pc' # pc)
            => /\ pc' = "task_done"
               /\ Len(privmsgs') = Len(privmsgs) + 1
               /\ privmsgs'[Len(privmsgs')].kind = "ready"
               /\ privmsgs'[Len(privmsgs')].job = job.id
               /\ privmsgs'[Len(privmsgs')].file = file_url(ret.output_file)]_vars

\* The unlink raised, the input file is still there, the job is Succeeded.
C12_Witness ==
    /\ Finished
    /\ "unlink" \in raised
    /\ temp # {}
    /\ ret.success
    /\ state[job.id] = "Succeeded"

\* The jobs the handler of a message from nick appends to the queue.
Appended(message, nick) ==
    LET urls == Extracted[message]
    IN  [i \in 1..Len(urls) |-> [id |-> put_count + i, url |-> urls[i], requester |-> nick]]

C14_NotificationOfSameJob ==
    /\ [][(pc = "cleanup" /\ pc' = "notify" /\ ret'.success)
            => ret'.output_file =
                 <<"/app/output", safe_title \o <<"-">> \o timestamp \o <<"-x220.mp4">> >>]_vars
    /\ [](\A i \in DOMAIN privmsgs :
            privmsgs[i].kind \in {"ready", "failed"}
              => /\ Sent
                 /\ privmsgs[i].job = job.id
                 /\ privmsgs[i].target = channel
                 /\ privmsgs[i].requester = requested[job.id].requester
                 /\ privmsgs[i].requester = job.requester
                 /\ privmsgs[i].kind = "failed"
                      => /\ privmsgs[i].url = requested[job.id].url
                         /\ privmsgs[i].url = job.url
                         /\ privmsgs[i].file = None
                 /\ privmsgs[i].kind = "ready"
                      => /\ ret.success
                         /\ ret.output_file[1] = "/app/output"
                         /\ privmsgs[i].file = <<"http://10.0.0.2:8084", ret.output_file[2]>>
                         /\ ret.output_file \in DOMAIN output)

\* The first job's ready message was sent while a job with another URL and
\* another requester waits.
C14_Witness ==
    /\ Sent
    /\ job.id = 1
    /\ Len(Notifs(1)) = 1
    /\ Notifs(1)[1].kind = "ready"
    /\ state[2] = "Queued"
    /\ requested[2].url # requested[1].url
    /\ requested[2].requester # requested[1].requester

\* The occurrences of the link t in a message, and of any link.
Occurrences(message, t) == Cardinality({i \in DOMAIN message : message[i] = t})
LinkCount(message) == Cardinality({i \in DOMAIN message : message[i] \in Tokens})

\* What the handler of a message from nick with N link occurrences does:
\* N puts, one job per occurrence of each link, each with nick as requester.
EnqueuesEveryMatch(message, nick) ==
    LET N == LinkCount(message)
        old == Len(processing_queue)
    IN  /\ put_count' = put_count + N
        /\ unfinished_tasks' = unfinished_tasks + N
        /\ Len(processing_queue') = old + N
        /\ SubSeq(processing_queue', 1, old) = processing_queue
        /\ \A i \in 1..N : processing_queue'[old + i].requester = nick
        /\ \A t \in Tokens :
             Cardinality({i \in 1..N : processing_queue'[old + i].url = t})
               = Occurrences(message, t)
        /\ N = 0 => UNCHANGED vars

Transitions ==
    { <<"Absent", "Queued">>, <<"Queued", "Fetching">>, <<"Fetching", "Encoding">>,
      <<"Fetching", "Failed">>, <<"Encoding", "Succeeded">>, <<"Encoding", "Failed">>,
      <<"Succeeded", "Reported">>, <<"Failed", "Reported">> }

\* C16: a job changes state only along Queued -> Fetching -> Encoding ->
\* {Succeeded, Failed} -> Reported or Fetching -> Failed; it enters Encoding
\* only when the title probe and the download of that job exited zero and
\* an input file is there; the queue holds exactly the Queued jobs, so a
\* job that left Queued, Failed or not, is never put again.
C16_JobTransitions ==
    /\ [][\A j \in JobIds :
            /\ state'[j] # state[j] => <<state[j], state'[j]>> \in Transitions
            /\ (state'[j] = "Encoding" /\ state[j] # "Encoding")
                 => /\ job # None /\ job.id = j
                    /\ calls = << <<"info", "exit0">>, <<"download", "exit0">> >>
                    /\ raised = {}
                    /\ temp # {}]_vars
    /\ [](/\ \A j \in JobIds :
               state[j] = "Queued" <=> (\E i \in DOMAIN processing_queue : processing_queue[i].id = j)
          /\ \A i, k \in DOMAIN processing_queue :
               processing_queue[i].id = processing_queue[k].id => i = k
          /\ \A j \in JobIds : state[j] = "Absent" <=> j > put_count)

\* The first job went from Fetching to Failed without an encoder call; the
\* second is still Queued.
C16_Witness ==
    /\ Finished
    /\ job.id = 1
    /\ state[1] = "Failed"
    /\ ~Called("probe")
    /\ Returned("download", "exit1")
    /\ state[2] = "Queued"

\* C17: the capability is probed for every job.  A job past the probe has
\* made exactly one probe, as its third call, before any encode; a job
\* leaves Encoding only with its probe made; and on the return of the probe
\* the worker goes to the NVENC encode exactly when this probe listed
\* h264_nvenc, to the x264 encode otherwise, also after an NVENC encode of
\* an earlier job failed.
C17_FreshProbePerJob ==
    /\ []((pc \in {"nvenc", "cpu", "cleanup"})
            => /\ Len(CallsOf("probe")) = 1
               /\ calls[3][1] = "probe"
               /\ \A i \in DOMAIN calls : calls[i][1] \in {"nvenc", "cpu"} => i > 3
               /\ pc = "nvenc" => calls[3][2] = "listed"
               /\ (pc = "cpu" /\ ~Called("nvenc")) => calls[3][2] # "listed")
    /\ [][(pc = "probe" /\ pc' # pc)
            => /\ Len(calls') = 3
               /\ calls'[3][1] = "probe"
               /\ pc' = (IF calls'[3][2] = "listed" THEN "nvenc" ELSE "cpu")]_vars
    /\ [][(job # None /\ state[job.id] = "Encoding" /\ state'[job.id] # "Encoding")
            => Len(SelectSeq(calls', LAMBDA c : c[1] = "probe")) = 1]_vars

\* The second job's probe listed NVENC and the worker is at its NVENC encode,
\* after the NVENC encode of the first job failed.
C17_Witness ==
    /\ pc = "nvenc"
    /\ job.id = 2
    /\ ~Called("nvenc")
    /\ nvenc_failed
    /\ Returned("probe", "listed")

\* The worker is inside download_and_encode, past the timestamp.
Stamped == pc \in {"info", "download", "glob", "probe", "nvenc", "cpu", "cleanup"}

\* C18: the timestamp of a job is taken once, when its processing starts:
\* it is set on the step from the start to the title probe, to the minute of
\* the clock at that step, and does not change while the job is processed,
\* however the clock moves; the output path, once made, holds this timestamp
\* and does not change; and every write of the NVENC and the x264 encode
\* goes to this one path.
C18_TimestampCapturedOnce ==
    /\ [][/\ (pc = "start" /\ pc' = "info") => timestamp' = strftime(clock)
          /\ (Stamped /\ Stamped') => timestamp' = timestamp
          /\ (output_path # None /\ output_path' # None) => output_path' = output_path
          /\ output' # output
               => /\ pc \in {"nvenc", "cpu"}
                  /\ output_path \in DOMAIN output'
                  /\ \A f \in DOMAIN output' \ {output_path} :
                       f \in DOMAIN output /\ output'[f] = output[f]]_vars
    /\ [](/\ Stamped <=> timestamp # None
          /\ pc \in {"probe", "nvenc", "cpu", "cleanup"}
               => output_path = <<"/app/output",
                                  safe_title \o <<"-">> \o timestamp \o <<"-x220.mp4">> >>)

\* The x264 fallback is about to run after NVENC failed and wrote to the
\* output path; the clock has reached another minute than the timestamp.
C18_Witness ==
    /\ pc = "cpu"
    /\ Returned("nvenc", "exit1")
    /\ output_path \in DOMAIN output
    /\ strftime(clock) # timestamp

\* C19: task_done once per dequeued job.  The count of unfinished tasks is
\* always the jobs in the queue plus the job the worker holds; it goes down
\* only at the worker's task_done step, by one; the step that sends the
\* notification, whether the send returned or raised, leads to task_done,
\* task_done leads back to get(), and get() can then take the next job.
C19_TaskDoneOncePerJob ==
    /\ [](/\ unfinished_tasks = Len(processing_queue) + (IF job # None THEN 1 ELSE 0)
          /\ job = None <=> pc = "get"
          /\ pc # "dead"
          /\ (pc = "get" /\ processing_queue # <<>>) => ENABLED Get)
    /\ [][/\ (pc = "notify" /\ pc' # pc)
               => /\ pc' = "task_done"
                  /\ unfinished_tasks' = unfinished_tasks
                  /\ Len(privmsgs') = Len(privmsgs) + 1
          /\ (pc = "task_done" /\ pc' # pc)
               => /\ pc' = "get"
                  /\ unfinished_tasks' = unfinished_tasks - 1
          /\ unfinished_tasks' < unfinished_tasks
               => /\ pc = "task_done"
                  /\ unfinished_tasks' = unfinished_tasks - 1]_vars

\* The send of the current job's notification raised; task_done is next and
\* another job waits.
C19_Witness ==
    /\ Sent
    /\ Len(Notifs(job.id)) = 1
    /\ ~Notifs(job.id)[1].delivered
    /\ Len(processing_queue) = 1
    /\ unfinished_tasks = 2

\* The positions in privmsgs of the acknowledgements of job j.
Acks(j) == {i \in DOMAIN privmsgs : privmsgs[i].job = j /\ privmsgs[i].kind = "processing"}

\* C20: every ready or failed message goes to the configured channel, for
\* public and private requests alike; the "Processing video" message of a
\* job goes to the requester when the request was private and to the
\* channel when it was public; a job that was put has exactly one such
\* message, sent by the step that put it, and it comes before the job's
\* ready or failed message.
C20_NotificationTargets ==
    /\ [](/\ \A i \in DOMAIN privmsgs :
               /\ privmsgs[i].kind \in {"ready", "failed"} => privmsgs[i].target = channel
               /\ privmsgs[i].kind = "processing"
                    => /\ requested[privmsgs[i].job] # None
                       /\ privmsgs[i].url = requested[privmsgs[i].job].url
                       /\ privmsgs[i].target =
                            (IF requested[privmsgs[i].job].via = "privmsg"
                             THEN requested[privmsgs[i].job].requester
                             ELSE channel)
          /\ \A j \in JobIds :
               requested[j] # None
                 => /\ Cardinality(Acks(j)) = 1
                    /\ \A i \in Acks(j), k \in DOMAIN privmsgs :
                         (privmsgs[k].job = j /\ privmsgs[k].kind \in {"ready", "failed"}) => i < k)
    /\ [][\A j \in JobIds :
            (state[j] = "Absent" /\ state'[j] = "Queued")
              => \E i \in DOMAIN privmsgs' :
                   /\ i > Len(privmsgs)
                   /\ privmsgs'[i].job = j
                   /\ privmsgs'[i].kind = "processing"]_vars

\* The ready message of a job requested in private went to the channel; its
\* acknowledgement had gone to the requester.
C20_Witness ==
    /\ Sent
    /\ job.id = 1
    /\ requested[1].via = "privmsg"
    /\ Len(Notifs(1)) = 1
    /\ Notifs(1)[1].kind = "ready"
    /\ Notifs(1)[1].target = channel
    /\ \E i \in Acks(1) : privmsgs[i].target = requested[1].requester

====
